---- MODULE Spec2Model ----
(***************************************************************************)
(* The HACK assembler of hack_asm.py: line normalisation (parser), the     *)
(* label, constant and variable tables, symbol resolution (refer_to_num)   *)
(* and binary encoding (bin_encoder), run in sequence by main.             *)
(*                                                                         *)
(* A Python string is a sequence of one-character strings, so that         *)
(* indexing, slicing, str(), int() and bin() are computed as Python        *)
(* computes them.  A dict is a function whose domain is its key set.       *)
(***************************************************************************)
EXTENDS Integers, Sequences, FiniteSets, TLC

VARIABLES pc, err, asm_lst, parsed_lst, instr_lst, lbl_tbl, const_tbl,
          var_tbl, new_lst, bin_lst, out_f, out_created, arg, ret

vars == <<pc, err, asm_lst, parsed_lst, instr_lst, lbl_tbl, const_tbl,
          var_tbl, new_lst, bin_lst, out_f, out_created, arg, ret>>

(* ------------------------------ bounds --------------------------------- *)

\* Longest source file (in raw lines) the pipeline is run on.
MaxLines == 3

\* Largest address N for which the address instruction @N is encoded alone.
MaxAddr == 65540

(* ----------------------- Python string primitives ---------------------- *)

Digit == {"0", "1", "2", "3", "4", "5", "6", "7", "8", "9"}

\* str.split() with no argument splits on runs of these.
Whitespace == {" ", "\t"}

DigitChar(d) ==
    CASE d = 0 -> "0" [] d = 1 -> "1" [] d = 2 -> "2" [] d = 3 -> "3"
      [] d = 4 -> "4" [] d = 5 -> "5" [] d = 6 -> "6" [] d = 7 -> "7"
      [] d = 8 -> "8" [] d = 9 -> "9"

DigitVal(c) == CHOOSE d \in 0..9 : DigitChar(d) = c

\* c.isdigit()
isdigit(c) == c \in Digit

\* c in s
Contains(s, c) == \E i \in 1..Len(s) : s[i] = c

\* s.index(c): 0-based position of the first occurrence
index(s, c) ==
    (CHOOSE i \in 1..Len(s) : s[i] = c /\ \A j \in 1..(i - 1) : s[j] # c) - 1

\* A slice bound as Python normalises it: negative counts from the end,
\* and the result is clamped to 0..n.
SliceBound(i, n) ==
    IF i < 0 THEN (IF i + n < 0 THEN 0 ELSE i + n)
    ELSE IF i > n THEN n ELSE i

\* s[lo:hi]
Slice(s, lo, hi) ==
    SubSeq(s, SliceBound(lo, Len(s)) + 1, SliceBound(hi, Len(s)))

\* s[lo:]
SliceFrom(s, lo) == Slice(s, lo, Len(s))

\* str(n) for n >= 0
RECURSIVE str(_)
str(n) == IF n < 10 THEN <<DigitChar(n)>>
          ELSE str(n \div 10) \o <<DigitChar(n % 10)>>

\* int(s) succeeds on a non-empty run of decimal digits and raises
\* ValueError on every other string of the alphabet used here.
int_ok(s) == Len(s) > 0 /\ \A i \in 1..Len(s) : isdigit(s[i])

RECURSIVE int(_)
int(s) == IF Len(s) = 0 THEN 0
          ELSE 10 * int(SubSeq(s, 1, Len(s) - 1)) + DigitVal(s[Len(s)])

\* bin(n)[2:] for n >= 0: the binary digits, no padding
RECURSIVE bin(_)
bin(n) == IF n < 2 THEN <<DigitChar(n)>>
          ELSE bin(n \div 2) \o <<DigitChar(n % 2)>>

\* "".join(line.split())
RECURSIVE join_split(_)
join_split(line) ==
    IF Len(line) = 0 THEN <<>>
    ELSE IF Head(line) \in Whitespace THEN join_split(Tail(line))
    ELSE <<Head(line)>> \o join_split(Tail(line))

\* lst.remove(x): deletes the first element equal to x
ListRemove(lst, x) ==
    LET i == CHOOSE k \in 1..Len(lst) :
                 lst[k] = x /\ \A j \in 1..(k - 1) : lst[j] # x
    IN  SubSeq(lst, 1, i - 1) \o SubSeq(lst, i + 1, Len(lst))

EmptyDict == [k \in {} |-> 0]

\* d[k] = v
DictSet(d, k, v) ==
    [x \in DOMAIN d \cup {k} |-> IF x = k THEN v ELSE d[x]]

(* ------------------------------- parser -------------------------------- *)

\* One iteration of the loop of parser over the raw lines.
parser_line_keep(line, lst) ==
    IF line # <<>>
    THEN LET mod_line == join_split(line) IN
         IF Contains(mod_line, "/")
         THEN LET ind == index(mod_line, "/") IN
              IF ind # 0
              THEN Append(lst, Slice(mod_line, 0, ind))
              ELSE Append(lst, mod_line)
         ELSE Append(lst, mod_line)
    ELSE lst

parser_line(line, lst) ==
    IF line # <<>>
    THEN LET mod_line == join_split(line) IN
         IF Contains(mod_line, "/")
         THEN LET ind == index(mod_line, "/") IN
              IF ind # 0
              THEN Append(lst, Slice(mod_line, 0, ind))
              ELSE lst
         ELSE Append(lst, mod_line)
    ELSE lst

RECURSIVE parser_loop(_, _)
parser_loop(lines, lst) ==
    IF Len(lines) = 0 THEN lst
    ELSE parser_loop(Tail(lines), parser_line(Head(lines), lst))

parser(lines) == parser_loop(lines, <<>>)

(* ----------------------------- label_table ----------------------------- *)

\* One iteration of the loop of label_table: st holds table_dict,
\* instr_count and the list being mutated.
label_line_count_all(line, st) ==
    IF ~Contains(line, "(")
    THEN [st EXCEPT !.instr_count = @ + 1]
    ELSE [table_dict  |-> DictSet(st.table_dict, Slice(line, 1, -1),
                                  st.instr_count),
          instr_count |-> st.instr_count + 1,
          instr_lst   |-> ListRemove(st.instr_lst, line)]

label_line(line, st) ==
    IF ~Contains(line, "(")
    THEN [st EXCEPT !.instr_count = @ + 1]
    ELSE [table_dict  |-> DictSet(st.table_dict, Slice(line, 1, -1),
                                  st.instr_count),
          instr_count |-> st.instr_count,
          instr_lst   |-> ListRemove(st.instr_lst, line)]

RECURSIVE label_loop(_, _)
label_loop(copy, st) ==
    IF Len(copy) = 0 THEN st
    ELSE label_loop(Tail(copy), label_line(Head(copy), st))

\* The final state of label_table: .table_dict is what it returns and
\* .instr_lst is its argument as it leaves it.
label_table(lst) ==
    label_loop(lst, [table_dict |-> EmptyDict, instr_count |-> 0,
                     instr_lst |-> lst])

(* ----------------------------- const_table ----------------------------- *)

const_table ==
    LET regs == {<<"R">> \o str(i) : i \in 0..15} IN
       [k \in regs |-> CHOOSE i \in 0..15 : k = <<"R">> \o str(i)]
    @@ (<<"S", "C", "R", "E", "E", "N">> :> 16384)
    @@ (<<"K", "B", "D">> :> 24576)
    @@ (<<"S", "P">> :> 0)
    @@ (<<"L", "C", "L">> :> 1)
    @@ (<<"A", "R", "G">> :> 2)
    @@ (<<"T", "H", "I", "S">> :> 3)
    @@ (<<"T", "H", "A", "T">> :> 4)

(* ------------------------------ var_table ------------------------------ *)

\* line[0] and line[1] are read without a length check: IndexError on an
\* empty line and on the line "@".
index_ok(lst) ==
    \A i \in 1..Len(lst) :
        Len(lst[i]) >= 1 /\ (lst[i][1] = "@" => Len(lst[i]) >= 2)

\* One iteration of the loop of var_table: st holds table_dict and
\* ram_pointer.
var_line_readd(line, st, lbl, const) ==
    IF line[1] = "@" /\ ~isdigit(line[2])
    THEN LET symb == SliceFrom(line, 1) IN
         IF symb \notin DOMAIN lbl /\ symb \notin DOMAIN const
         THEN [table_dict  |-> DictSet(st.table_dict, symb, st.ram_pointer),
               ram_pointer |-> st.ram_pointer + 1]
         ELSE st
    ELSE st

var_line(line, st, lbl, const) ==
    IF line[1] = "@" /\ ~isdigit(line[2])
    THEN LET symb == SliceFrom(line, 1) IN
         IF symb \notin DOMAIN lbl /\ symb \notin DOMAIN const
            /\ symb \notin DOMAIN st.table_dict
         THEN [table_dict  |-> DictSet(st.table_dict, symb, st.ram_pointer),
               ram_pointer |-> st.ram_pointer + 1]
         ELSE st
    ELSE st

RECURSIVE var_loop(_, _, _, _)
var_loop(lst, st, lbl, const) ==
    IF Len(lst) = 0 THEN st
    ELSE var_loop(Tail(lst), var_line(Head(lst), st, lbl, const), lbl, const)

var_table(lst, lbl, const) ==
    var_loop(lst, [table_dict |-> EmptyDict, ram_pointer |-> 16],
             lbl, const).table_dict

(* ----------------------------- refer_to_num ---------------------------- *)

\* {**lbl_tbl, **const_tbl, **var_tbl}: a key of a later table replaces
\* the same key of an earlier one.
symb_tbl_label_first(lbl, const, var) ==
    [k \in DOMAIN lbl \cup DOMAIN const \cup DOMAIN var |->
        IF k \in DOMAIN lbl THEN lbl[k]
        ELSE IF k \in DOMAIN const THEN const[k]
        ELSE var[k]]

symb_tbl(lbl, const, var) ==
    [k \in DOMAIN lbl \cup DOMAIN const \cup DOMAIN var |->
        IF k \in DOMAIN var THEN var[k]
        ELSE IF k \in DOMAIN const THEN const[k]
        ELSE lbl[k]]

\* The line is an address instruction whose operand the code takes for a
\* symbol: only the operand's first character is tested.
is_reference(line) == line[1] = "@" /\ ~isdigit(line[2])

\* symb_tbl[symb] raises KeyError on a missing key.
refer_ok(lst, lbl, const, var) ==
    \A i \in 1..Len(lst) :
        is_reference(lst[i]) =>
            SliceFrom(lst[i], 1) \in DOMAIN symb_tbl(lbl, const, var)

\* One iteration of the loop of refer_to_num: the line appended to new_lst.
refer_line_no_at(line, tbl) ==
    IF is_reference(line)
    THEN str(tbl[SliceFrom(line, 1)])
    ELSE line

refer_line(line, tbl) ==
    IF is_reference(line)
    THEN <<"@">> \o str(tbl[SliceFrom(line, 1)])
    ELSE line

refer_to_num(lst, lbl, const, var) ==
    [i \in 1..Len(lst) |-> refer_line(lst[i], symb_tbl(lbl, const, var))]

(* ------------------------------ encoders ------------------------------- *)

RECURSIVE Zeros(_)
Zeros(n) == IF n <= 0 THEN <<>> ELSE <<"0">> \o Zeros(n - 1)

a_instr_ok(instr) == int_ok(SliceFrom(instr, 1))

a_instr_encoder_pad15(instr) ==
    LET bin_str == bin(int(SliceFrom(instr, 1)))
    IN  Zeros(15 - Len(bin_str)) \o bin_str

a_instr_encoder(instr) ==
    LET bin_str == bin(int(SliceFrom(instr, 1)))
    IN  Zeros(16 - Len(bin_str)) \o bin_str

comp_tbl ==
       (<<"0">> :> <<"0", "1", "0", "1", "0", "1", "0">>)
    @@ (<<"1">> :> <<"0", "1", "1", "1", "1", "1", "1">>)
    @@ (<<"-", "1">> :> <<"0", "1", "1", "1", "0", "1", "0">>)
    @@ (<<"D">> :> <<"0", "0", "0", "1", "1", "0", "0">>)
    @@ (<<"A">> :> <<"0", "1", "1", "0", "0", "0", "0">>)
    @@ (<<"M">> :> <<"1", "1", "1", "0", "0", "0", "0">>)
    @@ (<<"!", "D">> :> <<"0", "0", "0", "1", "1", "0", "1">>)
    @@ (<<"!", "A">> :> <<"0", "1", "1", "0", "0", "0", "1">>)
    @@ (<<"!", "M">> :> <<"1", "1", "1", "0", "0", "0", "1">>)
    @@ (<<"-", "D">> :> <<"0", "0", "0", "1", "1", "0", "1">>)
    @@ (<<"-", "A">> :> <<"0", "1", "1", "0", "0", "1", "1">>)
    @@ (<<"-", "M">> :> <<"1", "1", "1", "0", "0", "1", "1">>)
    @@ (<<"D", "+", "1">> :> <<"0", "0", "1", "1", "1", "1", "1">>)
    @@ (<<"A", "+", "1">> :> <<"0", "1", "1", "0", "1", "1", "1">>)
    @@ (<<"M", "+", "1">> :> <<"1", "1", "1", "0", "1", "1", "1">>)
    @@ (<<"D", "-", "1">> :> <<"0", "0", "0", "1", "1", "1", "0">>)
    @@ (<<"A", "-", "1">> :> <<"0", "1", "1", "0", "0", "1", "0">>)
    @@ (<<"M", "-", "1">> :> <<"1", "1", "1", "0", "0", "1", "0">>)
    @@ (<<"D", "+", "A">> :> <<"0", "0", "0", "0", "0", "1", "0">>)
    @@ (<<"D", "+", "M">> :> <<"1", "0", "0", "0", "0", "1", "0">>)
    @@ (<<"D", "-", "A">> :> <<"0", "0", "1", "0", "0", "1", "1">>)
    @@ (<<"D", "-", "M">> :> <<"1", "0", "1", "0", "0", "1", "1">>)
    @@ (<<"A", "-", "D">> :> <<"0", "0", "0", "0", "1", "1", "1">>)
    @@ (<<"M", "-", "D">> :> <<"1", "0", "0", "0", "1", "1", "1">>)
    @@ (<<"D", "&", "A">> :> <<"0", "0", "0", "0", "0", "0", "0">>)
    @@ (<<"D", "&", "M">> :> <<"1", "0", "0", "0", "0", "0", "0">>)
    @@ (<<"D", "|", "A">> :> <<"0", "0", "1", "0", "1", "0", "1">>)
    @@ (<<"D", "|", "M">> :> <<"1", "0", "1", "0", "1", "0", "1">>)

dest_tbl ==
       (<<"n", "u", "l", "l">> :> <<"0", "0", "0">>)
    @@ (<<"M">> :> <<"0", "0", "1">>)
    @@ (<<"D">> :> <<"0", "1", "0">>)
    @@ (<<"M", "D">> :> <<"0", "1", "1">>)
    @@ (<<"A">> :> <<"1", "0", "0">>)
    @@ (<<"A", "M">> :> <<"1", "0", "1">>)
    @@ (<<"A", "D">> :> <<"1", "1", "0">>)
    @@ (<<"A", "M", "D">> :> <<"1", "1", "1">>)

jmp_tbl ==
       (<<"n", "u", "l", "l">> :> <<"0", "0", "0">>)
    @@ (<<"J", "G", "T">> :> <<"0", "0", "1">>)
    @@ (<<"J", "E", "Q">> :> <<"0", "1", "0">>)
    @@ (<<"J", "G", "E">> :> <<"0", "1", "1">>)
    @@ (<<"J", "L", "T">> :> <<"1", "0", "0">>)
    @@ (<<"J", "N", "E">> :> <<"1", "0", "1">>)
    @@ (<<"J", "L", "E">> :> <<"1", "1", "0">>)
    @@ (<<"J", "M", "P">> :> <<"1", "1", "1">>)

null == <<"n", "u", "l", "l">>

\* The three fields c_instr_encoder cuts out of the line.
c_fields_short_default(line) ==
    LET ind_eq  == IF Contains(line, "=") THEN index(line, "=")
                   ELSE -Len(line)
        ind_jmp == IF Contains(line, ";") THEN index(line, ";")
                   ELSE Len(line)
        dest    == Slice(line, 0, ind_eq)
        jmp     == SliceFrom(line, ind_jmp + 1)
    IN  [dest |-> IF dest = <<>> THEN null ELSE dest,
         jmp  |-> IF jmp = <<>> THEN null ELSE jmp,
         comp |-> Slice(line, ind_eq + 1, ind_jmp)]

c_fields(line) ==
    LET ind_eq  == IF Contains(line, "=") THEN index(line, "=")
                   ELSE -Len(line) - 1
        ind_jmp == IF Contains(line, ";") THEN index(line, ";")
                   ELSE Len(line)
        dest    == Slice(line, 0, ind_eq)
        jmp     == SliceFrom(line, ind_jmp + 1)
    IN  [dest |-> IF dest = <<>> THEN null ELSE dest,
         jmp  |-> IF jmp = <<>> THEN null ELSE jmp,
         comp |-> Slice(line, ind_eq + 1, ind_jmp)]

\* A table lookup raises KeyError on a missing key.
c_instr_ok(line) ==
    /\ c_fields(line).comp \in DOMAIN comp_tbl
    /\ c_fields(line).dest \in DOMAIN dest_tbl
    /\ c_fields(line).jmp \in DOMAIN jmp_tbl

c_instr_encoder(line) ==
    <<"1", "1", "1">> \o comp_tbl[c_fields(line).comp]
        \o dest_tbl[c_fields(line).dest] \o jmp_tbl[c_fields(line).jmp]

\* One iteration of the loop of bin_encoder.
bin_line_ok(line) ==
    IF line[1] = "@" THEN a_instr_ok(line) ELSE c_instr_ok(line)

bin_line(line) ==
    IF line[1] = "@" THEN a_instr_encoder(line) ELSE c_instr_encoder(line)

bin_encoder_ok(lst) == \A i \in 1..Len(lst) : bin_line_ok(lst[i])

bin_encoder(lst) == [i \in 1..Len(lst) |-> bin_line(lst[i])]

\* The exception the first line bin_encoder cannot encode raises.
bin_encoder_error(lst) ==
    LET i == CHOOSE k \in 1..Len(lst) :
                 ~bin_line_ok(lst[k]) /\ \A j \in 1..(k - 1) : bin_line_ok(lst[j])
    IN  IF lst[i][1] = "@" THEN "a_instr_encoder:ValueError"
        ELSE "c_instr_encoder:KeyError"

(* --------------------------------- main -------------------------------- *)

\* The raw text lines a source file is made of.
RawLinePool ==
    { <<>>,
      <<" ", "\t">>,
      <<"@", "i">>,
      <<"@", " ", "j">>,
      <<"(", "L", ")">>,
      <<"(", "R", "5", ")">>,
      <<"@", "R", "5">>,
      <<"@", "L">>,
      <<"D", "=", "A", " ", "/", "/", "c">>,
      <<"/", "/", "c">>,
      <<"@", "1", "a">>,
      <<"@">>,
      <<"@", "6", "5", "5", "3", "6">>,
      <<"D", "=", "X">>,
      <<"0", ";", "J", "M", "P">>,
      <<"@", "S", "C", "R", "E", "E", "N">> }

\* The source files main is run on: up to MaxLines raw lines.
Programs == UNION {[1..n -> RawLinePool] : n \in 0..MaxLines}

Init ==
    /\ pc = "parse"
    /\ err = "none"
    /\ asm_lst \in Programs
    /\ parsed_lst = <<>>
    /\ instr_lst = <<>>
    /\ lbl_tbl = EmptyDict
    /\ const_tbl = EmptyDict
    /\ var_tbl = EmptyDict
    /\ new_lst = <<>>
    /\ bin_lst = <<>>
    /\ out_f = <<>>
    /\ out_created = FALSE
    /\ arg = <<>>
    /\ ret = <<>>

\* instr_lst = parser(asm_file_loc).  parsed_lst keeps the list as the
\* parser returned it; instr_lst is the list object label_table mutates.
Parse ==
    /\ pc = "parse"
    /\ parsed_lst' = parser(asm_lst)
    /\ instr_lst' = parser(asm_lst)
    /\ pc' = "label"
    /\ UNCHANGED <<err, asm_lst, lbl_tbl, const_tbl, var_tbl, new_lst,
                   bin_lst, out_f, out_created, arg, ret>>

\* lbl_tbl = label_table(instr_lst)
LabelTable ==
    /\ pc = "label"
    /\ lbl_tbl' = label_table(instr_lst).table_dict
    /\ instr_lst' = label_table(instr_lst).instr_lst
    /\ pc' = "const"
    /\ UNCHANGED <<err, asm_lst, parsed_lst, const_tbl, var_tbl, new_lst,
                   bin_lst, out_f, out_created, arg, ret>>

\* const_tbl = const_table()
ConstTable ==
    /\ pc = "const"
    /\ const_tbl' = const_table
    /\ pc' = "var"
    /\ UNCHANGED <<err, asm_lst, parsed_lst, instr_lst, lbl_tbl, var_tbl,
                   new_lst, bin_lst, out_f, out_created, arg, ret>>

\* var_tbl = var_table(instr_lst, lbl_tbl, const_tbl)
VarTable ==
    /\ pc = "var"
    /\ IF index_ok(instr_lst)
       THEN /\ var_tbl' = var_table(instr_lst, lbl_tbl, const_tbl)
            /\ pc' = "refer"
            /\ err' = err
       ELSE /\ var_tbl' = var_tbl
            /\ pc' = "failed"
            /\ err' = "var_table:IndexError"
    /\ UNCHANGED <<asm_lst, parsed_lst, instr_lst, lbl_tbl, const_tbl,
                   new_lst, bin_lst, out_f, out_created, arg, ret>>

\* instr_lst = refer_to_num(instr_lst, lbl_tbl, const_tbl, var_tbl).  The
\* result is kept in new_lst, so that instr_lst stays the resolver's input.
ReferToNum ==
    /\ pc = "refer"
    /\ IF refer_ok(instr_lst, lbl_tbl, const_tbl, var_tbl)
       THEN /\ new_lst' = refer_to_num(instr_lst, lbl_tbl, const_tbl, var_tbl)
            /\ pc' = "encode"
            /\ err' = err
       ELSE /\ new_lst' = new_lst
            /\ pc' = "failed"
            /\ err' = "refer_to_num:KeyError"
    /\ UNCHANGED <<asm_lst, parsed_lst, instr_lst, lbl_tbl, const_tbl,
                   var_tbl, bin_lst, out_f, out_created, arg, ret>>

\* A bin_encoder that writes each line to the output as soon as it is
\* encoded.
BinEncoderStreaming ==
    /\ pc = "encode"
    /\ IF bin_encoder_ok(new_lst)
       THEN /\ bin_lst' = bin_encoder(new_lst)
            /\ pc' = "write"
            /\ err' = err
            /\ UNCHANGED <<out_f, out_created>>
       ELSE /\ bin_lst' = bin_lst
            /\ pc' = "failed"
            /\ err' = bin_encoder_error(new_lst)
            /\ out_created' = TRUE
            /\ out_f' = bin_encoder(SubSeq(new_lst, 1,
                   (CHOOSE k \in 1..Len(new_lst) :
                       /\ ~bin_line_ok(new_lst[k])
                       /\ \A j \in 1..(k - 1) : bin_line_ok(new_lst[j])) - 1))
    /\ UNCHANGED <<asm_lst, parsed_lst, instr_lst, lbl_tbl, const_tbl,
                   var_tbl, new_lst, arg, ret>>

\* bin_lst = bin_encoder(instr_lst)
BinEncoder ==
    /\ pc = "encode"
    /\ IF bin_encoder_ok(new_lst)
       THEN /\ bin_lst' = bin_encoder(new_lst)
            /\ pc' = "write"
            /\ err' = err
       ELSE /\ bin_lst' = bin_lst
            /\ pc' = "failed"
            /\ err' = bin_encoder_error(new_lst)
    /\ UNCHANGED <<asm_lst, parsed_lst, instr_lst, lbl_tbl, const_tbl,
                   var_tbl, new_lst, out_f, out_created, arg, ret>>

\* with open(bin_file_loc, 'w') as out_f: one line written per element of
\* bin_lst.
WriteOut ==
    /\ pc = "write"
    /\ out_created' = TRUE
    /\ out_f' = bin_lst
    /\ pc' = "done"
    /\ UNCHANGED <<err, asm_lst, parsed_lst, instr_lst, lbl_tbl, const_tbl,
                   var_tbl, new_lst, bin_lst, arg, ret>>

Next ==
    \/ Parse
    \/ LabelTable
    \/ ConstTable
    \/ VarTable
    \/ ReferToNum
    \/ BinEncoder
    \/ WriteOut

Spec == Init /\ [][Next]_vars

(* ------------------ a_instr_encoder on one instruction ----------------- *)

Idle ==
    /\ err = "none"
    /\ asm_lst = <<>>
    /\ parsed_lst = <<>>
    /\ instr_lst = <<>>
    /\ lbl_tbl = EmptyDict
    /\ const_tbl = EmptyDict
    /\ var_tbl = EmptyDict
    /\ new_lst = <<>>
    /\ bin_lst = <<>>
    /\ out_f = <<>>
    /\ out_created = FALSE
    /\ ret = <<>>

\* The address instructions @0 .. @MaxAddr, written as the resolver
\* writes them.
InitA ==
    /\ pc = "a_instr"
    /\ arg \in {[n |-> n, instr |-> <<"@">> \o str(n)] : n \in 0..MaxAddr}
    /\ Idle

AInstr ==
    /\ pc = "a_instr"
    /\ IF a_instr_ok(arg.instr)
       THEN /\ ret' = a_instr_encoder(arg.instr)
            /\ pc' = "a_done"
            /\ err' = err
       ELSE /\ ret' = ret
            /\ pc' = "failed"
            /\ err' = "a_instr_encoder:ValueError"
    /\ UNCHANGED <<asm_lst, parsed_lst, instr_lst, lbl_tbl, const_tbl,
                   var_tbl, new_lst, bin_lst, out_f, out_created, arg>>

NextA == AInstr

SpecA == InitA /\ [][NextA]_vars

(* ------------------ c_instr_encoder on one instruction ----------------- *)

\* The mnemonics a source line can spell out; <<>> stands for an absent
\* clause.
DestMnemonics == DOMAIN dest_tbl \ {null}
JumpMnemonics == DOMAIN jmp_tbl \ {null}
CompExpressions == DOMAIN comp_tbl \cup {<<"D", "+", "D">>}

c_line(dest, comp, jmp) ==
    (IF dest = <<>> THEN <<>> ELSE dest \o <<"=">>) \o comp
        \o (IF jmp = <<>> THEN <<>> ELSE <<";">> \o jmp)

\* The compute instructions [dest=]comp[;jump].
InitC ==
    /\ pc = "c_instr"
    /\ arg \in {[dest |-> d, comp |-> c, jmp |-> j, line |-> c_line(d, c, j)] :
                   d \in DestMnemonics \cup {<<>>},
                   c \in CompExpressions,
                   j \in JumpMnemonics \cup {<<>>}}
    /\ Idle

CInstr ==
    /\ pc = "c_instr"
    /\ IF c_instr_ok(arg.line)
       THEN /\ ret' = c_instr_encoder(arg.line)
            /\ pc' = "c_done"
            /\ err' = err
       ELSE /\ ret' = ret
            /\ pc' = "failed"
            /\ err' = "c_instr_encoder:KeyError"
    /\ UNCHANGED <<asm_lst, parsed_lst, instr_lst, lbl_tbl, const_tbl,
                   var_tbl, new_lst, bin_lst, out_f, out_created, arg>>

NextC == CInstr

SpecC == InitC /\ [][NextC]_vars


(* =============================== claims ================================ *)

\* The stages of main that have run.
AfterParse == pc \in {"label", "const", "var", "refer", "encode", "write", "done"}
AfterLabel == pc \in {"const", "var", "refer", "encode", "write", "done"}
AfterRefer == pc \in {"encode", "write", "done"}
AfterEncode == pc \in {"write", "done"}

IsLabelLine(line) == Contains(line, "(")
NotLabelLine(line) == ~Contains(line, "(")
LabelName(line) == Slice(line, 1, -1)
LabelPositions == {i \in 1..Len(parsed_lst) : IsLabelLine(parsed_lst[i])}

\* The number of lines before position i that are no label declarations.
InstrBefore(i) ==
    Cardinality({j \in 1..(i - 1) : NotLabelLine(parsed_lst[j])})

\* C1: after label_table, every line holding a label declaration is gone
\* from the list and the other lines keep their order; the table's keys are
\* the declared names, and each name maps to the number of non-label lines
\* before its last declaration, which is the 0-based position, in the
\* label-free list, of the first instruction kept after that declaration.
C1_LabelTable ==
    AfterLabel =>
        /\ instr_lst = SelectSeq(parsed_lst, NotLabelLine)
        /\ DOMAIN lbl_tbl = {LabelName(parsed_lst[i]) : i \in LabelPositions}
        /\ \A i \in LabelPositions :
              (\A j \in LabelPositions :
                  j > i => LabelName(parsed_lst[j]) # LabelName(parsed_lst[i]))
              => /\ lbl_tbl[LabelName(parsed_lst[i])] = InstrBefore(i)
                 /\ \A p \in (i + 1)..Len(parsed_lst) :
                       (/\ NotLabelLine(parsed_lst[p])
                        /\ \A q \in (i + 1)..(p - 1) : IsLabelLine(parsed_lst[q]))
                       => instr_lst[lbl_tbl[LabelName(parsed_lst[i])] + 1]
                              = parsed_lst[p]

\* A name declared twice with an instruction in between: the table holds
\* the index of the later declaration.
C1_Witness ==
    /\ AfterLabel
    /\ \E i, j \in LabelPositions :
          /\ i < j
          /\ LabelName(parsed_lst[i]) = LabelName(parsed_lst[j])
          /\ InstrBefore(i) < InstrBefore(j)
          /\ lbl_tbl[LabelName(parsed_lst[j])] = InstrBefore(j)

Operand(line) == SliceFrom(line, 1)

\* An address instruction whose operand is a symbol.
IsSymbolRef(line) ==
    Len(line) >= 2 /\ line[1] = "@" /\ ~isdigit(line[2])

\* The symbols of the label-free list that are neither labels nor constants.
UserSymbols ==
    {Operand(instr_lst[i]) : i \in {k \in 1..Len(instr_lst) :
        /\ IsSymbolRef(instr_lst[k])
        /\ Operand(instr_lst[k]) \notin DOMAIN lbl_tbl
        /\ Operand(instr_lst[k]) \notin DOMAIN const_tbl}}

FirstUse(s) ==
    CHOOSE i \in 1..Len(instr_lst) :
        /\ instr_lst[i] = <<"@">> \o s
        /\ \A j \in 1..(i - 1) : instr_lst[j] # <<"@">> \o s

\* C2: the variable table holds exactly the symbols that are neither labels
\* nor constants; the k-th of them in order of first appearance (k = 0, 1,
\* ...) has address 16 + k, and every reference to it resolves to that
\* address.
C2_VarTable ==
    AfterRefer =>
        /\ DOMAIN var_tbl = UserSymbols
        /\ \A s \in UserSymbols :
              var_tbl[s] = 16 + Cardinality({t \in UserSymbols :
                                                FirstUse(t) < FirstUse(s)})
        /\ \A i \in 1..Len(instr_lst) :
              (IsSymbolRef(instr_lst[i]) /\ Operand(instr_lst[i]) \in UserSymbols)
              => new_lst[i] = <<"@">> \o str(var_tbl[Operand(instr_lst[i])])

\* Two variables, the first of them referred to again after the second.
C2_Witness ==
    /\ AfterRefer
    /\ \E i, j, k \in 1..Len(instr_lst) :
          /\ i < j /\ j < k
          /\ instr_lst[i] = instr_lst[k]
          /\ instr_lst[i] # instr_lst[j]
          /\ Operand(instr_lst[i]) \in UserSymbols
          /\ Operand(instr_lst[j]) \in UserSymbols
          /\ new_lst[i] = <<"@", "1", "6">>
          /\ new_lst[j] = <<"@", "1", "7">>
          /\ new_lst[k] = <<"@", "1", "6">>

\* The references to a name that is both a label and a constant.
SharedRefs ==
    {i \in 1..Len(instr_lst) :
        /\ IsSymbolRef(instr_lst[i])
        /\ Operand(instr_lst[i]) \in DOMAIN lbl_tbl
        /\ Operand(instr_lst[i]) \in DOMAIN const_tbl}

\* C3 as stated: a reference to a name that is both a label and a constant
\* resolves to the label's instruction index.
C3_LabelOverConstant ==
    AfterRefer =>
        \A i \in SharedRefs :
            new_lst[i] = <<"@">> \o str(lbl_tbl[Operand(instr_lst[i])])

\* C3 as amended: a reference to a name that is both a label and a constant
\* resolves to the constant's fixed address, and the variable table shares
\* no key with the label and constant tables.
C3_ConstantOverLabel ==
    AfterRefer =>
        /\ DOMAIN var_tbl \cap (DOMAIN lbl_tbl \cup DOMAIN const_tbl) = {}
        /\ \A i \in SharedRefs :
              new_lst[i] = <<"@">> \o str(const_tbl[Operand(instr_lst[i])])

\* A label named like a constant, with another index than the constant's
\* address, is referred to.
C3_Witness ==
    /\ AfterRefer
    /\ \E i \in SharedRefs :
          /\ lbl_tbl[Operand(instr_lst[i])] # const_tbl[Operand(instr_lst[i])]
          /\ new_lst[i] = <<"@">> \o str(const_tbl[Operand(instr_lst[i])])

IsBits(s) == \A i \in 1..Len(s) : s[i] \in {"0", "1"}

\* C4 as stated: every string bin_encoder emits is 16 characters of '0' and
\* '1'.
C4_SixteenBits ==
    AfterEncode =>
        \A i \in 1..Len(bin_lst) : Len(bin_lst[i]) = 16 /\ IsBits(bin_lst[i])

\* The number a string of bits spells, most significant bit first.
RECURSIVE BitsValue(_)
BitsValue(s) ==
    IF Len(s) = 0 THEN 0
    ELSE 2 * BitsValue(SubSeq(s, 1, Len(s) - 1))
           + (IF s[Len(s)] = "1" THEN 1 ELSE 0)

\* C5: for 0 <= N <= 32767, @N encodes to '0' followed by the 15-bit
\* zero-padded binary form of N; @0 gives sixteen zeros and @32767 a zero
\* followed by fifteen ones.
C5_AddressEncoding ==
    (pc = "a_done" /\ arg.n <= 32767) =>
        /\ Len(ret) = 16
        /\ IsBits(ret)
        /\ ret[1] = "0"
        /\ BitsValue(SubSeq(ret, 2, 16)) = arg.n
        /\ arg.n = 0 => ret = <<"0", "0", "0", "0", "0", "0", "0", "0",
                                "0", "0", "0", "0", "0", "0", "0", "0">>
        /\ arg.n = 32767 => ret = <<"0", "1", "1", "1", "1", "1", "1", "1",
                                    "1", "1", "1", "1", "1", "1", "1", "1">>

\* @32767 has been encoded.
C5_Witness ==
    /\ pc = "a_done"
    /\ arg.n = 32767
    /\ ret = <<"0", "1", "1", "1", "1", "1", "1", "1",
               "1", "1", "1", "1", "1", "1", "1", "1">>

C7_AllOrNothing ==
    /\ pc # "done" => (~out_created /\ out_f = <<>>)
    /\ pc = "done" =>
          /\ out_created
          /\ err = "none"
          /\ Len(out_f) = Len(SelectSeq(parsed_lst, NotLabelLine))
          /\ Len(out_f) = Len(new_lst)
          /\ \A i \in 1..Len(out_f) : out_f[i] = bin_line(new_lst[i])

\* A program with a label declaration has been translated and written.
C7_Witness ==
    /\ pc = "done"
    /\ out_created
    /\ LabelPositions # {}
    /\ Len(out_f) >= 2

IsBlank(line) == \A i \in 1..Len(line) : line[i] \in Whitespace

IsPrefix(p, s) == Len(p) <= Len(s) /\ SubSeq(s, 1, Len(p)) = p

\* C8 as stated: the parser's output holds only non-empty strings without
\* whitespace, in the order of the raw lines they come from, and a raw line
\* of whitespace alone contributes nothing.
C8_NormalizedLines ==
    AfterParse =>
        /\ \A k \in 1..Len(parsed_lst) :
              /\ parsed_lst[k] # <<>>
              /\ \A i \in 1..Len(parsed_lst[k]) :
                    parsed_lst[k][i] \notin Whitespace
        /\ \E f \in [1..Len(parsed_lst) -> 1..Len(asm_lst)] :
              /\ \A k \in 1..Len(parsed_lst) :
                    /\ ~IsBlank(asm_lst[f[k]])
                    /\ IsPrefix(parsed_lst[k], join_split(asm_lst[f[k]]))
              /\ \A k, l \in 1..Len(parsed_lst) : k < l => f[k] < f[l]

\* The raw line, stripped of whitespace, starts with '/'.
SlashFirst(line) ==
    Len(join_split(line)) > 0 /\ join_split(line)[1] = "/"

\* The raw line, stripped of whitespace, has its first '/' further on.
SlashLater(line) ==
    Contains(join_split(line), "/") /\ join_split(line)[1] # "/"

\* The raw lines the parser emits something for.
Emitted(line) == line # <<>> /\ ~SlashFirst(line)

\* The stripped line up to its first '/', or all of it.
BeforeSlash(line) ==
    LET s == join_split(line)
    IN  IF Contains(s, "/") THEN SubSeq(s, 1, index(s, "/")) ELSE s

\* C9 as stated: a line whose first '/' is at index 0 after whitespace
\* removal is emitted unmodified.
C9_CommentLineEmitted ==
    AfterParse =>
        \A i \in 1..Len(asm_lst) :
            SlashFirst(asm_lst[i]) =>
                \E k \in 1..Len(parsed_lst) :
                    parsed_lst[k] = join_split(asm_lst[i])

\* C9 as amended: a line whose first '/' is at index 0 after whitespace
\* removal contributes no element, and a line whose first '/' is at a
\* non-zero index is emitted truncated to the text before that '/'.
C9_CommentLineDropped ==
    AfterParse =>
        LET kept == SelectSeq(asm_lst, Emitted) IN
        /\ Len(parsed_lst) = Len(kept)
        /\ \A k \in 1..Len(kept) : parsed_lst[k] = BeforeSlash(kept[k])
        /\ \A k \in 1..Len(parsed_lst) : ~Contains(parsed_lst[k], "/")

\* A comment-only line and a line with a trailing comment, parsed: the
\* first is gone and the second is cut.
C9_Witness ==
    /\ AfterParse
    /\ \E i, j \in 1..Len(asm_lst) :
          /\ SlashFirst(asm_lst[i])
          /\ SlashLater(asm_lst[j])
          /\ Len(asm_lst) = 2
          /\ parsed_lst = <<BeforeSlash(asm_lst[j])>>

IsAddress(line) == Len(line) >= 1 /\ line[1] = "@"

Merged == symb_tbl(lbl_tbl, const_tbl, var_tbl)

\* C10 as stated: the resolver's output has the length and order of its
\* input, compute instructions are unchanged, and every address instruction
\* whose operand is not purely numeric is replaced by '@' and the numeral
\* its operand resolves to, so that every address instruction of the output
\* has a numeric operand; no lookup fails.
C10_AllNumeric ==
    /\ err # "refer_to_num:KeyError"
    /\ AfterRefer =>
          /\ Len(new_lst) = Len(instr_lst)
          /\ \A i \in 1..Len(instr_lst) :
                /\ ~IsAddress(instr_lst[i]) => new_lst[i] = instr_lst[i]
                /\ IsAddress(instr_lst[i]) =>
                      /\ IsAddress(new_lst[i])
                      /\ int_ok(Operand(new_lst[i]))
                /\ (IsAddress(instr_lst[i]) /\ ~int_ok(Operand(instr_lst[i]))) =>
                      /\ Operand(instr_lst[i]) \in DOMAIN Merged
                      /\ new_lst[i] = <<"@">> \o str(Merged[Operand(instr_lst[i])])

\* C10 as amended: the resolver's output has the length and order of its
\* input, compute instructions are unchanged, every address instruction
\* whose operand starts with a non-digit is replaced by '@' and the numeral
\* its operand resolves to, without a lookup failure, and every address
\* instruction whose operand starts with a digit is passed through
\* unchanged, numeric or not.
C10_FirstCharDecides ==
    /\ err # "refer_to_num:KeyError"
    /\ AfterRefer =>
          /\ Len(new_lst) = Len(instr_lst)
          /\ \A i \in 1..Len(instr_lst) :
                /\ ~IsAddress(instr_lst[i]) => new_lst[i] = instr_lst[i]
                /\ IsSymbolRef(instr_lst[i]) =>
                      /\ Operand(instr_lst[i]) \in DOMAIN Merged
                      /\ new_lst[i] = <<"@">> \o str(Merged[Operand(instr_lst[i])])
                      /\ int_ok(Operand(new_lst[i]))
                /\ (IsAddress(instr_lst[i]) /\ ~IsSymbolRef(instr_lst[i])) =>
                      new_lst[i] = instr_lst[i]

\* A symbol has been replaced by its numeral next to an operand that
\* starts with a digit, is not numeric, and went through unchanged.
C10_Witness ==
    /\ AfterRefer
    /\ \E i, j \in 1..Len(instr_lst) :
          /\ IsSymbolRef(instr_lst[i])
          /\ new_lst[i] # instr_lst[i]
          /\ int_ok(Operand(new_lst[i]))
          /\ IsAddress(instr_lst[j])
          /\ isdigit(instr_lst[j][2])
          /\ ~int_ok(Operand(instr_lst[j]))
          /\ new_lst[j] = instr_lst[j]

====
